---- MODULE Spec2Model ----
(***************************************************************************)
(* A model of the ximple atom: a BehaviorSubject (Subject with a retained  *)
(* value), the update function with its three concurrency policies, and    *)
(* the localStorage persistence wired through BehaviorSubject.pipe.        *)
(*                                                                         *)
(* T is modelled as number.  The caller-supplied reducer is the tests'     *)
(* list-append reducer, a list being written as its decimal digits:        *)
(* [...state, val] is state * 10 + val.  It is order sensitive, so a       *)
(* value tells which updates were committed and in which order.            *)
(***************************************************************************)
EXTENDS Integers, Sequences, FiniteSets, TLC

\* ------------------------------------------------------------------ bounds
MaxCalls == 3          \* update() calls made in one behaviour
MaxSubs == 1           \* external subscribe() calls on the atom's subject
MaxFailures == 1       \* reducer invocations that reject
MaxThrowers == 1       \* subscribers whose callback throws
MaxPipes == 1          \* streams derived from the atom's subject with an operator
MaxOnce == 1           \* subscribers whose callback unsubscribes itself
MaxReentrant == 1      \* subscribers whose callback calls next

\* ------------------------------------------------------- inputs of atom()
initialValue == 5
ConcurrencyWindow == 1 \* a finite concurrencyTime
MaxTime == ConcurrencyWindow + 1   \* Date.now() runs over 0..MaxTime
\* Number.MAX_SAFE_INTEGER is 2^53 - 1; only its being larger than every
\* elapsed time matters, and the model checker's integers have 32 bits.
MAX_SAFE_INTEGER == 2147483647
appVersion == "1.0.0"
oldVersion == "0.9.0"
StoredData == 7

\* The values update() is called with
Actions == {1, 2}

\* The reducer `update` of the tests: (state, action) => [...state, action.val]
update(state, action) == state * 10 + action

\* transformOnDeserialize of the tests: every stored element changed
transformOnDeserialize(data) == data + 1

\* transformOnSerialize: T -> U, a form no state has
transformOnSerialize(value) == value + 1000

\* Subject.equalityCompareFn, the default: newValue === oldValue
equalityCompareFn(newValue, oldValue) == newValue = oldValue

\* ------------------------------------------------------------ localStorage
\* localStorage.getItem(persistKey): null, or a JSON text.  A JSON text is
\* modelled by the object JSON.parse makes of it; a key that is absent (or
\* whose value was undefined when stringified) is the empty sequence.
\* malformed: the text is not JSON.
NullItem == [json |-> FALSE, malformed |-> FALSE, data |-> <<>>, version |-> <<>>]

\* A stored text JSON.parse cannot read
MalformedItem == [json |-> TRUE, malformed |-> TRUE, data |-> <<>>, version |-> <<>>]

\* JSON.stringify({ data, version: appVersion })
JSONstringify(data, version) ==
  [json |-> TRUE, malformed |-> FALSE, data |-> <<data>>, version |-> <<version>>]

\* JSON.parse(localStorage.getItem(persistKey) ?? '{}')
JSONparse(item) == [data |-> item.data, version |-> item.version]

\* JSON.parse throws a SyntaxError on a text that is not JSON
JSONparseThrows(item) == item.malformed

\* JavaScript truthiness of a stored number
Truthy(x) == x # 0

StoredItems ==
  { NullItem,
    JSONstringify(StoredData, appVersion),
    JSONstringify(0, appVersion),
    JSONstringify(StoredData, oldVersion),
    MalformedItem }

\* ------------------------------------------------------------------ state
VARIABLES
  cfg,            \* the options atom() was called with (fixed)
  now,            \* Date.now()
  localStorage,   \* the item stored under persistKey
  setItemCalls,   \* the data of every localStorage.setItem so far, in order
  pendingWrites,  \* write-backs awaiting an asynchronous transformOnSerialize
  hydration,      \* "none" | "raw" | "sync" | "pending" | "resolved": the deserialize
                  \* promise; "threw": atom() threw and returned no atom
  _value,         \* BehaviorSubject._value
  _previousValue, \* Subject._previousValue
  subscribers,    \* Subject.subscribers: subscriber ids in registration order
  Subject_idgen,  \* Subject.idgen, the static subscriber id generator
  subKind,        \* subscriber id -> "writeback" (the pipe callback) | "listener"
                  \* | "pipe" (the callback of a pipe() with an operator)
                  \* | "thrower" (a callback that throws from its second call on)
  received,       \* subscriber id -> the values its callback was invoked with
  revoked,        \* subscriber ids whose unsubscribe handle has been called
  derived,        \* subscriber id of a pipe callback -> the stream pipe() returned
  calls,          \* the update() calls so far, in submission order
  queue,          \* updateFunction.queue: indices into calls
  idgen           \* the id generator of updateFunction

vars == << cfg, now, localStorage, setItemCalls, pendingWrites, hydration, _value,
           _previousValue, subscribers, Subject_idgen, subKind, received, revoked, derived,
           calls, queue, idgen >>

streamVars == << _value, _previousValue, subscribers, Subject_idgen, subKind, received, revoked,
                 derived >>
storeVars == << localStorage, setItemCalls, pendingWrites >>
schedVars == << calls, queue, idgen >>

Range(s) == { s[i] : i \in DOMAIN s }

\* ------------------------------------------------------------- write-back
\* Mutant of WriteBack: a synchronous transformOnSerialize is not applied
WriteBackRaw(store, value) ==
  IF cfg.transformOnSerialize = "async"
  THEN [store EXCEPT !.pendingWrites = Append(@, transformOnSerialize(value))]
  ELSE [store EXCEPT !.localStorage = JSONstringify(value, appVersion),
                     !.setItemCalls = Append(@, value)]

\* The callback atom() pipes the subject into: serialize, then setItem.
\* `store` is [localStorage, setItemCalls, pendingWrites]; the result is the
\* store after the synchronous part of the callback has run.
WriteBack(store, value) ==
  IF cfg.transformOnSerialize = "async"
  THEN [store EXCEPT !.pendingWrites = Append(@, transformOnSerialize(value))]
  ELSE LET data == IF cfg.transformOnSerialize = "sync"
                   THEN transformOnSerialize(value) ELSE value
       IN [store EXCEPT !.localStorage = JSONstringify(data, appVersion),
                        !.setItemCalls = Append(@, data)]

Store == [localStorage |-> localStorage, setItemCalls |-> setItemCalls,
          pendingWrites |-> pendingWrites]

\* ---------------------------------------------------------------- pipe()
\* The operators a stream is derived with, and the predicate given to them
Operators == { "filter", "skipWhile" }

predicate(newValue) == newValue % 2 = 1

\* Mutant of StopPropagation: no operator ever stops an event
StopPropagationNever(op, newValue) == FALSE

\* processFn(newValue, oldValue).stopPropagation for filter(predicate) and
\* for skipWhile(predicate); the value is passed on as it is
StopPropagation(op, newValue) ==
  IF op = "filter" THEN ~predicate(newValue) ELSE predicate(newValue)

\* subj.next(value) on the derived stream d: Subject._next with the default
\* comparator, and the _value of a BehaviorSubject.  An absent value
\* (undefined) is the empty sequence.
DerivedNext(d, value) ==
  [d EXCEPT !.nexts = Append(@, value),
            !.emitted = IF d._previousValue # <<value>> THEN Append(@, value) ELSE @,
            !._previousValue = <<value>>,
            !._value = IF d.stateful THEN <<value>> ELSE @]

\* The callback pipe() subscribes to the parent, called with `event` when
\* the parent's _previousValue is `oldValue`
PipeCallback(d, event, oldValue) ==
  LET d1 == [d EXCEPT !.processed = Append(@, << event, oldValue >>)] IN
  IF StopPropagation(d.op, event) THEN d1 ELSE DerivedNext(d1, event)

\* BehaviorSubject.pipe(processFn) up to the subscribe: processFn is
\* evaluated on (_value, undefined), and the child is a Subject when that
\* says stopPropagation, a BehaviorSubject of the value otherwise
Seeded(op) ==
  LET stop == StopPropagation(op, _value) IN
  [op |-> op, stateful |-> ~stop,
   _value |-> IF stop THEN <<>> ELSE << _value >>,
   _previousValue |-> IF stop THEN <<>> ELSE << _value >>,
   processed |-> << << _value, <<>> >> >>,
   nexts |-> <<>>, emitted |-> <<>>]

\* ---------------------------------------------------------- Subject._next
\* Mutant of Broadcasts: the comparator is not consulted
BroadcastsAlways(value, previousValue) == TRUE

\* Whether _next(value) broadcasts
Broadcasts(value, previousValue) == ~equalityCompareFn(value, previousValue)

\* this.subscribers.indexOf(sub), 0-based, -1 when absent
IndexOf(subs, s) ==
  IF \E i \in DOMAIN subs : subs[i] = s
  THEN (CHOOSE i \in DOMAIN subs : subs[i] = s) - 1
  ELSE -1

\* Subject.unsubscribe(sub)
Unsubscribed(subs, s) ==
  LET index == IndexOf(subs, s) IN
  IF index > 0
  THEN SubSeq(subs, 1, index) \o SubSeq(subs, index + 2, Len(subs))
  ELSE subs

\* The subject and what its callbacks write, as one value that a call of next
\* takes and returns; thrown says that a callback has thrown and the exception
\* is on its way out of next
Stream ==
  [_value |-> _value, _previousValue |-> _previousValue,
   subscribers |-> subscribers, revoked |-> revoked,
   received |-> received, derived |-> derived,
   store |-> Store, thrown |-> FALSE]

\* A re-entrant callback, (v) => { if (v % 2 === 0) subject.next(v + 1) },
\* calls next from inside the broadcast when the event is even
Reenters(event) == event % 2 = 0

ReentrantValue(event) == event + 1

RECURSIVE NextOn(_, _)
RECURSIVE ForEach(_, _, _, _)

\* s.notify(value): the callback of subscriber s runs.  A listener records
\* the event; a thrower throws; the write-back callback of atom() stores the
\* value; the callback of pipe() runs the transform; a once-callback calls
\* the handle subscribe() returned to it; a re-entrant callback calls next.
Notify(S, s, value) ==
  LET R == [S EXCEPT !.received[s] = Append(@, value)] IN
  CASE subKind[s] = "thrower" -> [R EXCEPT !.thrown = TRUE]
    [] subKind[s] = "writeback" -> [R EXCEPT !.store = WriteBack(@, value)]
    [] subKind[s] = "pipe" ->
         [R EXCEPT !.derived[s] = PipeCallback(@, value, << R._previousValue >>)]
    [] subKind[s] = "once" ->
         [R EXCEPT !.subscribers = Unsubscribed(@, s), !.revoked = @ \cup {s}]
    [] subKind[s] = "reentrant" ->
         IF Reenters(value) THEN NextOn(R, ReentrantValue(value)) ELSE R
    [] OTHER -> R

\* this.subscribers.forEach((s) => s.notify(value)) from index i on (1-based):
\* forEach reads the length n once, then visits each index below it that the
\* array still has when its turn comes, and is ended by a callback that throws
ForEach(S, value, i, n) ==
  IF S.thrown \/ i > n \/ i > Len(S.subscribers)
  THEN S
  ELSE ForEach(Notify(S, S.subscribers[i], value), value, i + 1, n)

\* BehaviorSubject.next(value) on S: set _value, broadcast when the comparator
\* says the value is new, then set _previousValue (not reached when a
\* callback has thrown)
NextOn(S, value) ==
  LET S1 == [S EXCEPT !._value = value]
      S2 == IF Broadcasts(value, S1._previousValue)
            THEN ForEach(S1, value, 1, Len(S1.subscribers))
            ELSE S1
  IN IF S2.thrown THEN S2 ELSE [S2 EXCEPT !._previousValue = value]

\* Whether _next(value) throws: a callback of the broadcast does
Throws(value) == NextOn(Stream, value).thrown

\* subject.next(value) on the atom's subject
SubjectNext(value) ==
  LET S == NextOn(Stream, value) IN
  /\ _value' = S._value
  /\ _previousValue' = S._previousValue
  /\ subscribers' = S.subscribers
  /\ revoked' = S.revoked
  /\ received' = S.received
  /\ derived' = S.derived
  /\ localStorage' = S.store.localStorage
  /\ setItemCalls' = S.store.setItemCalls
  /\ pendingWrites' = S.store.pendingWrites
  /\ UNCHANGED << Subject_idgen, subKind >>

\* subject.pipe(filter(predicate)) or subject.pipe(skipWhile(predicate)) on
\* the atom's subject: the child is seeded, then the callback is subscribed
\* (replayed _value, then registered)
Pipe(op) ==
  /\ hydration # "threw"
  /\ Cardinality(DOMAIN derived) < MaxPipes
  /\ derived' = (Subject_idgen :> PipeCallback(Seeded(op), _value, << _previousValue >>)) @@ derived
  /\ subscribers' = Append(subscribers, Subject_idgen)
  /\ subKind' = (Subject_idgen :> "pipe") @@ subKind
  /\ received' = (Subject_idgen :> << _value >>) @@ received
  /\ Subject_idgen' = Subject_idgen + 1
  /\ UNCHANGED << cfg, now, hydration, _value, _previousValue, revoked, localStorage,
                  setItemCalls, pendingWrites, calls, queue, idgen >>

\* ------------------------------------------------------------------ atom()
Concurrency == { "queue", "throttle", "debounce" }

NoPersistence ==
  [persistKey |-> FALSE, stored |-> NullItem,
   transformOnDeserialize |-> "none", transformOnSerialize |-> "none"]

Persistence ==
  [persistKey : {TRUE}, stored : StoredItems,
   transformOnDeserialize : {"none", "sync", "async"},
   transformOnSerialize : {"none", "sync", "async"}]

Options(persistence) ==
  { [concurrency |-> c, concurrencyTime |-> w, hasUpdate |-> u,
     persistKey |-> p.persistKey, stored |-> p.stored,
     transformOnDeserialize |-> p.transformOnDeserialize,
     transformOnSerialize |-> p.transformOnSerialize] :
       c \in Concurrency, w \in {ConcurrencyWindow, MAX_SAFE_INTEGER},
       u \in BOOLEAN, p \in persistence }

\* storedJson.version !== appVersion
VersionMismatch(c) == JSONparse(c.stored).version # <<appVersion>>

\* The branch of atom() that hydrates the subject from the stored record:
\* "none" (nothing is committed), "pending" (the transform returned a
\* promise), "sync" (the transform's result is committed), "raw" (the
\* stored data is committed as it is).
HydrationOf(c) ==
  LET storedJson == JSONparse(c.stored) IN
  IF c.persistKey /\ JSONparseThrows(c.stored) THEN "threw"
  ELSE IF ~c.persistKey \/ VersionMismatch(c) THEN "none"
  ELSE IF c.transformOnDeserialize # "none" /\ storedJson.data # <<>>
          /\ Truthy(storedJson.data[1])
       THEN (IF c.transformOnDeserialize = "async" THEN "pending" ELSE "sync")
  ELSE IF storedJson.data # <<>> THEN "raw"
  ELSE "none"

\* What the deserialize promise resolves to
HydratedValue(c) == transformOnDeserialize(JSONparse(c.stored).data[1])

\* Mutant of ValueAfterHydration: the promised value is committed at once
ValueAfterHydrationEager(c) ==
  CASE HydrationOf(c) \in {"sync", "pending"} -> HydratedValue(c)
    [] HydrationOf(c) = "raw" -> JSONparse(c.stored).data[1]
    [] OTHER -> initialValue

\* subject.value when atom() returns
ValueAfterHydration(c) ==
  CASE HydrationOf(c) = "sync" -> HydratedValue(c)
    [] HydrationOf(c) = "raw" -> JSONparse(c.stored).data[1]
    [] OTHER -> initialValue

\* localStorage after the version check: removeItem on a mismatch
ItemAfterVersionCheck(c) ==
  IF c.persistKey /\ ~JSONparseThrows(c.stored) /\ VersionMismatch(c)
  THEN NullItem ELSE c.stored

\* Mutant of PipeWriteBack: the pipe does not run the callback
PipeWithoutWriteBack(store, value) == store

\* BehaviorSubject.pipe(writeBack): processFn is evaluated on _value to seed
\* the child, and once more by the replay of BehaviorSubject.subscribe, then
\* the callback is registered.  The result is the store after both.
PipeWriteBack(store, value) == WriteBack(WriteBack(store, value), value)

\* Whether atom() gets as far as the pipe of the write-back: the exception of
\* JSON.parse is not caught
Piped(c) == c.persistKey /\ ~JSONparseThrows(c.stored)

\* The state atom() returns in (or throws in), for the options in `options`
AtomOf(options) ==
  \E c \in options :
    /\ cfg = c
    /\ now = 0
    /\ hydration = HydrationOf(c)
    /\ _value = ValueAfterHydration(c)
    /\ _previousValue = ValueAfterHydration(c)
    /\ LET st0 == [localStorage |-> ItemAfterVersionCheck(c),
                   setItemCalls |-> <<>>, pendingWrites |-> <<>>]
           st == IF Piped(c) THEN PipeWriteBack(st0, ValueAfterHydration(c)) ELSE st0
       IN /\ localStorage = st.localStorage
          /\ setItemCalls = st.setItemCalls
          /\ pendingWrites = st.pendingWrites
    /\ subscribers = IF Piped(c) THEN <<0>> ELSE <<>>
    /\ Subject_idgen = IF Piped(c) THEN 1 ELSE 0
    /\ subKind = IF Piped(c) THEN (0 :> "writeback") ELSE <<>>
    /\ received = IF Piped(c) THEN (0 :> <<ValueAfterHydration(c)>>) ELSE <<>>
    /\ revoked = {}
    /\ derived = <<>>
    /\ calls = <<>>
    /\ queue = <<>>
    /\ idgen = 0

\* ---------------------------------------------------------- updateFunction
\* A call of update() and its descriptor (queueItem).  pc is where the async
\* function stands: "waiting" at the await of Promise.all, "reducing" at the
\* await of update(...), "resolved" once it has returned, "rejected" once the
\* reducer has thrown.  id is -1 for a call that made no descriptor.
\* settled: resolver() was called on updatePromise.  state: subject.value as
\* read when the reducer was invoked.  inflight, head, hydrating: what was
\* going on when the call was made (the calls then awaiting their reducer,
\* the first queued descriptor, 0 for an empty queue, and whether the
\* deserialize promise was pending).
NewCall(action) ==
  [action |-> action, pc |-> "resolved", id |-> -1, skip |-> FALSE,
   timestamp |-> now, state |-> 0, waitFor |-> {}, settled |-> FALSE,
   inflight |-> { i \in DOMAIN calls : calls[i].pc = "reducing" },
   head |-> IF queue = <<>> THEN 0 ELSE queue[1],
   hydrating |-> hydration = "pending"]

\* Mutant of Throttled: the gate is closed only when a window is configured
ThrottledWithWindowOnly ==
  /\ Len(queue) > 0
  /\ cfg.concurrency = "throttle"
  /\ cfg.concurrencyTime # MAX_SAFE_INTEGER
  /\ now - calls[queue[1]].timestamp <= cfg.concurrencyTime

\* Mutant of Throttled: the age test is the wrong way round
ThrottledBeyondWindow ==
  /\ Len(queue) > 0
  /\ cfg.concurrency = "throttle"
  /\ now - calls[queue[1]].timestamp > cfg.concurrencyTime

\* Mutant of Throttled: a call made exactly one window after the first
\* queued descriptor is let through
ThrottledBeforeWindowEnd ==
  /\ Len(queue) > 0
  /\ cfg.concurrency = "throttle"
  /\ now - calls[queue[1]].timestamp < cfg.concurrencyTime

\* Mutant of Throttled: the gate looks for a second pending descriptor
ThrottledOnSecondPending ==
  /\ Len(queue) > 1
  /\ cfg.concurrency = "throttle"
  /\ now - calls[queue[1]].timestamp <= cfg.concurrencyTime

\* The throttle gate at the head of updateFunction
Throttled ==
  /\ Len(queue) > 0
  /\ cfg.concurrency = "throttle"
  /\ now - calls[queue[1]].timestamp <= cfg.concurrencyTime

\* Mutant of MarkSkipped: no descriptor is marked
MarkSkippedNone(cs) == cs

\* Mutant of MarkSkipped: the age test is the wrong way round
MarkSkippedOlder(cs) ==
  [i \in DOMAIN cs |->
     IF i \in Range(queue) /\ now - cs[i].timestamp > cfg.concurrencyTime
     THEN [cs[i] EXCEPT !.skip = TRUE] ELSE cs[i]]

\* debounce: updateFunction.queue.forEach(x => { if (age < concurrencyTime) x.skip = true })
MarkSkipped(cs) ==
  [i \in DOMAIN cs |->
     IF i \in Range(queue) /\ now - cs[i].timestamp < cfg.concurrencyTime
     THEN [cs[i] EXCEPT !.skip = TRUE] ELSE cs[i]]

\* updateFunction.queue.findIndex(x => x.id === id), 0-based, -1 when absent
FindIndex(q, cs, id) ==
  IF \E i \in DOMAIN q : cs[q[i]].id = id
  THEN (CHOOSE i \in DOMAIN q :
          /\ cs[q[i]].id = id
          /\ \A j \in DOMAIN q : cs[q[j]].id = id => i <= j) - 1
  ELSE -1

\* Mutant of Splice: nothing is removed
SpliceNothing(q, start) == q

\* Array.prototype.splice(start, 1): a negative start counts from the end
Splice(q, start) ==
  LET from == IF start < 0
              THEN (IF Len(q) + start < 0 THEN 0 ELSE Len(q) + start)
              ELSE (IF start > Len(q) THEN Len(q) ELSE start)
  IN IF from >= Len(q) THEN q
     ELSE SubSeq(q, 1, from) \o SubSeq(q, from + 2, Len(q))

\* The reducer's result for call k of cs
NewValue(cs, k) ==
  IF cfg.hasUpdate THEN update(cs[k].state, cs[k].action) ELSE cs[k].action

\* Mutant of Finish: the call resolves without subject.next(newValue)
FinishWithoutCommit(cs, q, k) ==
  /\ calls' = [cs EXCEPT ![k].pc = "resolved",
                         ![k].settled = ~(cfg.concurrency = "debounce" /\ cs[k].skip)]
  /\ queue' = IF cfg.concurrency = "debounce" /\ cs[k].skip
              THEN q ELSE Splice(q, FindIndex(q, cs, cs[k].id))
  /\ UNCHANGED << streamVars, storeVars >>

\* Mutant of Finish: the skip flag is not looked at
FinishIgnoringSkip(cs, q, k) ==
  /\ SubjectNext(NewValue(cs, k))
  /\ queue' = Splice(q, FindIndex(q, cs, cs[k].id))
  /\ calls' = [cs EXCEPT ![k].pc = "resolved", ![k].settled = TRUE]

\* The tail of updateFunction once newValue is known: the skip check, then
\* subject.next(newValue), the splice of the descriptor and resolver().  When
\* subject.next throws, the async function rejects there.
Finish(cs, q, k) ==
  IF cfg.concurrency = "debounce" /\ cs[k].skip
  THEN /\ calls' = [cs EXCEPT ![k].pc = "resolved"]
       /\ queue' = q
       /\ UNCHANGED << streamVars, storeVars >>
  ELSE /\ SubjectNext(NewValue(cs, k))
       /\ IF Throws(NewValue(cs, k))
          THEN /\ queue' = q
               /\ calls' = [cs EXCEPT ![k].pc = "rejected"]
          ELSE /\ queue' = Splice(q, FindIndex(q, cs, cs[k].id))
               /\ calls' = [cs EXCEPT ![k].pc = "resolved", ![k].settled = TRUE]

\* From the reducer's invocation on: update(subject.value, value) is called
\* and awaited, or, with no reducer, the value itself is committed at once.
Reduce(cs, q, k) ==
  IF cfg.hasUpdate
  THEN /\ calls' = [cs EXCEPT ![k].pc = "reducing", ![k].state = _value]
       /\ queue' = q
       /\ UNCHANGED << streamVars, storeVars >>
  ELSE Finish(cs, q, k)

\* update(value): the synchronous part of updateFunction, up to its first await
Update(action) ==
  /\ hydration # "threw"
  /\ Len(calls) < MaxCalls
  /\ LET k == Len(calls) + 1 IN
     IF Throttled
     THEN /\ calls' = Append(calls, NewCall(action))
          /\ UNCHANGED << queue, idgen, streamVars, storeVars >>
     ELSE LET marked == IF cfg.concurrency = "debounce" THEN MarkSkipped(calls) ELSE calls
              q0 == IF cfg.concurrency = "debounce" THEN <<>> ELSE queue
              item == [NewCall(action) EXCEPT !.id = idgen, !.pc = "waiting",
                         !.waitFor = IF cfg.concurrency = "queue" THEN Range(q0) ELSE {}]
              cs == Append(marked, item)
              q == Append(q0, k)
          IN /\ idgen' = idgen + 1
             /\ IF cfg.concurrency = "queue"
                THEN /\ calls' = cs
                     /\ queue' = q
                     /\ UNCHANGED << streamVars, storeVars >>
                ELSE Reduce(cs, q, k)
  /\ UNCHANGED << cfg, now, hydration >>

\* Mutant of PredecessorsDone: the first predecessor to finish ends the wait
PredecessorsDoneAny(k) ==
  /\ calls[k].pc = "waiting"
  /\ calls[k].waitFor # {} => \E p \in calls[k].waitFor : calls[p].settled
  /\ Reduce(calls, queue, k)
  /\ UNCHANGED << cfg, now, hydration, idgen >>

\* Mutant of PredecessorsDone: the predecessors are not awaited
PredecessorsDoneNoWait(k) ==
  /\ calls[k].pc = "waiting"
  /\ Reduce(calls, queue, k)
  /\ UNCHANGED << cfg, now, hydration, idgen >>

\* The await of Promise.all(predecessors) completes: every promise it was
\* given has been resolved
PredecessorsDone(k) ==
  /\ calls[k].pc = "waiting"
  /\ \A p \in calls[k].waitFor : calls[p].settled
  /\ Reduce(calls, queue, k)
  /\ UNCHANGED << cfg, now, hydration, idgen >>

\* The reducer's promise resolves
ReducerResolves(k) ==
  /\ calls[k].pc = "reducing"
  /\ Finish(calls, queue, k)
  /\ UNCHANGED << cfg, now, hydration, idgen >>

\* The reducer throws or its promise rejects: the async function rejects there
ReducerRejects(k) ==
  /\ calls[k].pc = "reducing"
  /\ Cardinality({ i \in DOMAIN calls : calls[i].pc = "rejected" }) < MaxFailures
  /\ calls' = [calls EXCEPT ![k].pc = "rejected"]
  /\ UNCHANGED << cfg, now, hydration, queue, idgen, streamVars, storeVars >>

\* ------------------------------------------------------------- persistence
\* deserialized.then(value => subject.next(value))
HydrationResolves ==
  /\ hydration = "pending"
  /\ hydration' = "resolved"
  /\ SubjectNext(HydratedValue(cfg))
  /\ UNCHANGED << cfg, now, schedVars >>

\* An asynchronous transformOnSerialize resolves and the write-back goes on
\* to localStorage.setItem
WriteLands(i) ==
  /\ i \in DOMAIN pendingWrites
  /\ localStorage' = JSONstringify(pendingWrites[i], appVersion)
  /\ setItemCalls' = Append(setItemCalls, pendingWrites[i])
  /\ pendingWrites' = SubSeq(pendingWrites, 1, i - 1) \o SubSeq(pendingWrites, i + 1, Len(pendingWrites))
  /\ UNCHANGED << cfg, now, hydration, streamVars, schedVars >>

\* ------------------------------------------------------------ subscribers
\* Mutant of Subscribe: the callback is registered without the replay
SubscribeWithoutReplay ==
  /\ hydration # "threw"
  /\ Cardinality({ s \in DOMAIN subKind : subKind[s] = "listener" }) < MaxSubs
  /\ subscribers' = Append(subscribers, Subject_idgen)
  /\ subKind' = (Subject_idgen :> "listener") @@ subKind
  /\ received' = (Subject_idgen :> <<>>) @@ received
  /\ Subject_idgen' = Subject_idgen + 1
  /\ UNCHANGED << cfg, now, hydration, _value, _previousValue, revoked, derived,
                  storeVars, schedVars >>

\* BehaviorSubject.subscribe(notify): replay _value, then Subject._subscribe
Subscribe ==
  /\ hydration # "threw"
  /\ Cardinality({ s \in DOMAIN subKind : subKind[s] = "listener" }) < MaxSubs
  /\ subscribers' = Append(subscribers, Subject_idgen)
  /\ subKind' = (Subject_idgen :> "listener") @@ subKind
  /\ received' = (Subject_idgen :> <<_value>>) @@ received
  /\ Subject_idgen' = Subject_idgen + 1
  /\ UNCHANGED << cfg, now, hydration, _value, _previousValue, revoked, derived,
                  storeVars, schedVars >>

\* subscribe(notify) with a callback that returns from its first call, the
\* replay, and throws from every later one
SubscribeThrowing ==
  /\ hydration # "threw"
  /\ Cardinality({ s \in DOMAIN subKind : subKind[s] = "thrower" }) < MaxThrowers
  /\ subscribers' = Append(subscribers, Subject_idgen)
  /\ subKind' = (Subject_idgen :> "thrower") @@ subKind
  /\ received' = (Subject_idgen :> <<_value>>) @@ received
  /\ Subject_idgen' = Subject_idgen + 1
  /\ UNCHANGED << cfg, now, hydration, _value, _previousValue, revoked, derived,
                  storeVars, schedVars >>

\* subscribe(notify) with a callback that calls the handle subscribe()
\* returned, once it has it: the replay finds no handle yet, every later call
\* unsubscribes the callback
SubscribeOnce ==
  /\ hydration # "threw"
  /\ Cardinality({ s \in DOMAIN subKind : subKind[s] = "once" }) < MaxOnce
  /\ subscribers' = Append(subscribers, Subject_idgen)
  /\ subKind' = (Subject_idgen :> "once") @@ subKind
  /\ received' = (Subject_idgen :> <<_value>>) @@ received
  /\ Subject_idgen' = Subject_idgen + 1
  /\ UNCHANGED << cfg, now, hydration, _value, _previousValue, revoked, derived,
                  storeVars, schedVars >>

\* subscribe(notify) with a re-entrant callback: the replay runs it on _value,
\* and its next, if it calls it, is over before the callback is registered
\* (it is not registered when that next throws)
SubscribeReentrant ==
  /\ hydration # "threw"
  /\ Cardinality({ s \in DOMAIN subKind : subKind[s] = "reentrant" }) < MaxReentrant
  /\ LET S == IF Reenters(_value)
              THEN NextOn(Stream, ReentrantValue(_value))
              ELSE Stream
     IN /\ _value' = S._value
        /\ _previousValue' = S._previousValue
        /\ revoked' = S.revoked
        /\ derived' = S.derived
        /\ localStorage' = S.store.localStorage
        /\ setItemCalls' = S.store.setItemCalls
        /\ pendingWrites' = S.store.pendingWrites
        /\ IF S.thrown
           THEN /\ subscribers' = S.subscribers
                /\ received' = S.received
                /\ UNCHANGED << subKind, Subject_idgen >>
           ELSE /\ subscribers' = Append(S.subscribers, Subject_idgen)
                /\ subKind' = (Subject_idgen :> "reentrant") @@ subKind
                /\ received' = (Subject_idgen :> <<_value>>) @@ S.received
                /\ Subject_idgen' = Subject_idgen + 1
  /\ UNCHANGED << cfg, now, hydration, schedVars >>

\* The handle subscribe() returned for s is called (for the write-back
\* subscriber it is the child's _unsubscribeFromParent)
Unsubscribe(s) ==
  /\ s \in DOMAIN subKind
  /\ subscribers' = Unsubscribed(subscribers, s)
  /\ revoked' = revoked \cup {s}
  /\ UNCHANGED << cfg, now, hydration, _value, _previousValue, Subject_idgen, subKind, derived,
                  received, storeVars, schedVars >>

\* Time passes
Tick ==
  /\ now < MaxTime
  /\ now' = now + 1
  /\ UNCHANGED << cfg, hydration, streamVars, storeVars, schedVars >>

\* ---------------------------------------------------------- specifications
\* The scheduler alone: an atom with no persistKey, every policy, with and
\* without a window, with and without a reducer; reducers may fail.
Next ==
  \/ \E a \in Actions : Update(a)
  \/ \E k \in DOMAIN calls : PredecessorsDone(k)
  \/ \E k \in DOMAIN calls : ReducerResolves(k)
  \/ \E k \in DOMAIN calls : ReducerRejects(k)
  \/ Tick

Init == AtomOf(Options({NoPersistence}))

Spec == Init /\ [][Next]_vars

\* Hydration: a persisted atom whose stored record has the configured
\* version, read through an asynchronous transformOnDeserialize.
HydrationOptions ==
  { c \in Options([persistKey : {TRUE},
                   stored : {JSONstringify(StoredData, appVersion), JSONstringify(0, appVersion)},
                   transformOnDeserialize : {"async"},
                   transformOnSerialize : {"none", "sync"}]) :
      c.concurrencyTime = MAX_SAFE_INTEGER }

InitHydration == AtomOf(HydrationOptions)

NextHydration ==
  \/ \E a \in Actions : Update(a)
  \/ \E k \in DOMAIN calls : PredecessorsDone(k)
  \/ \E k \in DOMAIN calls : ReducerResolves(k)
  \/ HydrationResolves

SpecHydration == InitHydration /\ [][NextHydration]_vars

\* Subscribers: listeners come and go on the atom's subject while updates
\* are committed, with and without the write-back subscriber of a persisted
\* atom in front of them.
SubscriberOptions ==
  { c \in Options({NoPersistence,
                   [persistKey |-> TRUE, stored |-> NullItem,
                    transformOnDeserialize |-> "none", transformOnSerialize |-> "none"]}) :
      c.concurrencyTime = MAX_SAFE_INTEGER }

InitSubscribers == AtomOf(SubscriberOptions)

NextSubscribers ==
  \/ \E a \in Actions : Update(a)
  \/ \E k \in DOMAIN calls : PredecessorsDone(k)
  \/ \E k \in DOMAIN calls : ReducerResolves(k)
  \/ Subscribe
  \/ \E s \in DOMAIN subKind : Unsubscribe(s)

SpecSubscribers == InitSubscribers /\ [][NextSubscribers]_vars

\* Persistence: a persisted atom over every stored item with the synchronous
\* transforms, and over the empty store with an asynchronous
\* transformOnSerialize.
PersistenceOptions ==
  { c \in Options([persistKey : {TRUE}, stored : StoredItems,
                   transformOnDeserialize : {"none", "sync"},
                   transformOnSerialize : {"none", "sync", "async"}]) :
      /\ c.concurrencyTime = MAX_SAFE_INTEGER
      /\ c.transformOnSerialize = "async" =>
            (c.stored = NullItem /\ c.transformOnDeserialize = "none") }

InitPersistence == AtomOf(PersistenceOptions)

NextPersistence ==
  \/ \E a \in Actions : Update(a)
  \/ \E k \in DOMAIN calls : PredecessorsDone(k)
  \/ \E k \in DOMAIN calls : ReducerResolves(k)
  \/ \E i \in DOMAIN pendingWrites : WriteLands(i)

SpecPersistence == InitPersistence /\ [][NextPersistence]_vars

\* Broadcasts: listeners and throwing callbacks subscribe to the atom's
\* subject while updates are committed.
InitStream == AtomOf(SubscriberOptions)

NextStream ==
  \/ \E a \in Actions : Update(a)
  \/ \E k \in DOMAIN calls : PredecessorsDone(k)
  \/ \E k \in DOMAIN calls : ReducerResolves(k)
  \/ Subscribe
  \/ SubscribeThrowing

SpecStream == InitStream /\ [][NextStream]_vars

\* Callbacks that act on the subject: listeners, callbacks that unsubscribe
\* themselves and callbacks that call next subscribe to the atom's subject
\* while updates are committed.
InitBroadcast == AtomOf(SubscriberOptions)

NextBroadcast ==
  \/ \E a \in Actions : Update(a)
  \/ \E k \in DOMAIN calls : PredecessorsDone(k)
  \/ \E k \in DOMAIN calls : ReducerResolves(k)
  \/ Subscribe
  \/ SubscribeOnce
  \/ SubscribeReentrant

SpecBroadcast == InitBroadcast /\ [][NextBroadcast]_vars

\* The scheduler with reducers that always return, for every policy with a
\* window (calls come both within and after it): the event loop runs every
\* continuation that is ready, so an await whose promises are resolved is
\* resumed and a reducer's promise resolves.
LiveOptions ==
  { c \in Options({NoPersistence}) : c.concurrencyTime = ConcurrencyWindow }

InitLive == AtomOf(LiveOptions)

NextLive ==
  \/ \E a \in Actions : Update(a)
  \/ \E k \in DOMAIN calls : PredecessorsDone(k)
  \/ \E k \in DOMAIN calls : ReducerResolves(k)
  \/ Tick

Fairness ==
  /\ WF_vars(\E k \in DOMAIN calls : PredecessorsDone(k))
  /\ WF_vars(\E k \in DOMAIN calls : ReducerResolves(k))

SpecLive == InitLive /\ [][NextLive]_vars /\ Fairness

\* Derived streams: the atom's subject is piped through filter or skipWhile
\* while updates are committed.
DerivedOptions ==
  { c \in Options({NoPersistence}) : c.concurrencyTime = MAX_SAFE_INTEGER }

InitDerived == AtomOf(DerivedOptions)

NextDerived ==
  \/ \E a \in Actions : Update(a)
  \/ \E k \in DOMAIN calls : PredecessorsDone(k)
  \/ \E k \in DOMAIN calls : ReducerResolves(k)
  \/ \E op \in Operators : Pipe(op)

SpecDerived == InitDerived /\ [][NextDerived]_vars

\* ------------------------------------------------------------------ claims
\* One step of the configured reducer, as the claims state it
Step(state, action) == IF cfg.hasUpdate THEN state * 10 + action ELSE action

\* The left fold of the reducer over the actions of calls[from..to] from `state`
RECURSIVE LeftFold(_, _, _)
LeftFold(state, from, to) ==
  IF from > to THEN state
  ELSE LeftFold(Step(state, calls[from].action), from + 1, to)

\* The calls whose result was committed to the subject
Committed == { k \in DOMAIN calls : calls[k].settled }

\* Every call was made while all the earlier ones were awaiting their reducer
Burst == \A k \in DOMAIN calls : \A j \in 1..(k - 1) : j \in calls[k].inflight

AllResolved == \A k \in DOMAIN calls : calls[k].pc = "resolved"

\* C1: under queue the committed calls are at every moment the first n
\* submitted ones, and the subject's value is the left fold of the reducer
\* over their actions in submission order, from the initial value; so it is
\* once every call has resolved, whatever the completion latencies.
C1_QueueCommitsInSubmissionOrder ==
  cfg.concurrency = "queue" =>
    /\ \A k \in Committed : \A j \in 1..(k - 1) : j \in Committed
    /\ _value = LeftFold(initialValue, 1, Cardinality(Committed))
    /\ AllResolved => _value = LeftFold(initialValue, 1, Len(calls))

\* Three queued updates with different actions have all resolved, the third
\* one having been submitted while an earlier reducer was still running
C1_Witness ==
  /\ cfg.concurrency = "queue" /\ cfg.hasUpdate
  /\ Len(calls) = 3 /\ AllResolved
  /\ calls[3].inflight # {}
  /\ calls[1].action # calls[2].action
  /\ _value = ((initialValue * 10 + calls[1].action) * 10 + calls[2].action) * 10 + calls[3].action

\* C2: an update made while the deserialize promise is pending is not
\* committed before the promise resolves, and once the promise and all such
\* updates have resolved the value is the left fold of the reducer over
\* their actions from the hydrated value.
C2_BufferedUpdatesReplayOnHydrated ==
  /\ hydration = "pending" =>
       \A k \in DOMAIN calls : calls[k].hydrating => ~calls[k].settled
  /\ (hydration = "resolved" /\ Len(calls) >= 1 /\ AllResolved
        /\ \A k \in DOMAIN calls : calls[k].hydrating)
       => _value = LeftFold(transformOnDeserialize(JSONparse(cfg.stored).data[1]), 1, Len(calls))

\* C3: a call of update() made while the deserialize promise is pending
\* changes neither the subject, nor what the subscribers received, nor the
\* store, and starts nothing in the scheduler.
C3_UpdateDuringHydrationOnlyBuffers ==
  [][(hydration = "pending" /\ Len(calls') = Len(calls) + 1) =>
       /\ _value' = _value /\ _previousValue' = _previousValue
       /\ received' = received
       /\ localStorage' = localStorage /\ setItemCalls' = setItemCalls
       /\ pendingWrites' = pendingWrites
       /\ queue' = queue /\ idgen' = idgen]_vars

\* C4: while the deserialize promise is pending nothing has been written to
\* the store, and no write-back is under way.
C4_NoWriteBeforeHydration ==
  hydration = "pending" => setItemCalls = <<>> /\ pendingWrites = <<>>

C6_ThrottleFirstCommits ==
  (cfg.concurrency = "throttle" /\ cfg.concurrencyTime = MAX_SAFE_INTEGER /\ cfg.hasUpdate) =>
    /\ \A k \in DOMAIN calls :
         1 \in calls[k].inflight =>
           calls[k].pc = "resolved" /\ calls[k].id = -1 /\ ~calls[k].settled
    /\ (Len(calls) >= 1 /\ AllResolved /\ \A k \in 2..Len(calls) : 1 \in calls[k].inflight)
         => _value = initialValue * 10 + calls[1].action

\* Three throttled updates, the second and third made while the first one's
\* reducer was running, have all resolved
C6_Witness ==
  /\ cfg.concurrency = "throttle" /\ cfg.concurrencyTime = MAX_SAFE_INTEGER /\ cfg.hasUpdate
  /\ Len(calls) = 3 /\ AllResolved
  /\ 1 \in calls[2].inflight /\ 1 \in calls[3].inflight
  /\ calls[1].action # calls[3].action
  /\ _value = initialValue * 10 + calls[1].action

\* Every call was made less than the window after the one before it
WithinWindow ==
  \A k \in 2..Len(calls) : calls[k].timestamp - calls[k - 1].timestamp < cfg.concurrencyTime

\* C7 as stated: under debounce, of the calls of a burst (each made while
\* the earlier ones' reducers were running) only the last commits, and once
\* all have resolved the value is reducer(initial, lastAction).
C7_DebounceLastCommits ==
  (cfg.concurrency = "debounce" /\ cfg.hasUpdate /\ Burst /\ Len(calls) >= 1) =>
    /\ \A k \in 1..(Len(calls) - 1) : ~calls[k].settled
    /\ AllResolved => _value = initialValue * 10 + calls[Len(calls)].action

\* C7 as amended: the same, for a burst whose calls each come less than
\* concurrencyTime after the one before (always so with no window).
C7_DebounceLastCommitsWithinWindow ==
  (cfg.concurrency = "debounce" /\ cfg.hasUpdate /\ Burst /\ WithinWindow /\ Len(calls) >= 1) =>
    /\ \A k \in 1..(Len(calls) - 1) : ~calls[k].settled
    /\ AllResolved => _value = initialValue * 10 + calls[Len(calls)].action

\* A burst of three debounced updates within a finite window has resolved,
\* the first reducer finishing last
C7_Witness ==
  /\ cfg.concurrency = "debounce" /\ cfg.hasUpdate /\ cfg.concurrencyTime = ConcurrencyWindow
  /\ Len(calls) = 3 /\ Burst /\ WithinWindow /\ AllResolved
  /\ calls[1].skip /\ calls[2].skip /\ ~calls[3].skip
  /\ calls[1].action # calls[3].action
  /\ _value = initialValue * 10 + calls[3].action

\* C8: under queue a call is never left waiting for a descriptor whose
\* reducer has failed: the failed descriptor's completion signal has fired.
C8_FailedPredecessorUnblocks ==
  cfg.concurrency = "queue" =>
    \A k \in DOMAIN calls :
      calls[k].pc = "waiting" =>
        \A p \in calls[k].waitFor : calls[p].pc = "rejected" => calls[p].settled

\* C9: a call whose reducer failed has rejected, has committed nothing, and
\* its descriptor is no longer in the pending queue.
C9_FailedDescriptorRemoved ==
  \A k \in DOMAIN calls :
    calls[k].pc = "rejected" => ~calls[k].settled /\ k \notin Range(queue)

\* C10: once a subscriber's revoke handle has been called, no later next()
\* invokes its callback.
C10_RevokedNeverNotified ==
  [][\A s \in revoked : received'[s] = received[s]]_vars

\* atom() has returned and no update() has been called yet
JustConstructed == hydration # "threw" /\ calls = <<>>

\* C11: when the stored record's version differs from appVersion, the record
\* is removed, the atom's value is the supplied initial value, and
\* construction performs no store write of that initial value.
C11_MismatchDiscardsWithoutWrite ==
  (JustConstructed /\ cfg.stored.json /\ VersionMismatch(cfg)) =>
     /\ _value = initialValue
     /\ localStorage = NullItem
     /\ setItemCalls = <<>>
     /\ pendingWrites = <<>>

\* The record the write-back stores for a committed value, as the claims
\* state it: the serialized value when a transform is configured
RecordOf(value) ==
  JSONstringify(IF cfg.transformOnSerialize = "none" THEN value ELSE value + 1000,
                appVersion)

\* C12 as stated: when the store holds no record for the key, right after
\* construction the store holds {data: initialValue, version: appVersion}.
C12_InitialValuePersistedRaw ==
  (JustConstructed /\ cfg.stored = NullItem) =>
     localStorage = JSONstringify(initialValue, appVersion)

\* C12 (amended): when the store holds no record for the key, construction
\* itself persists the initial value: right after construction the store
\* holds {data: serialized-or-raw initialValue, version: appVersion}, or, with
\* an asynchronous transformOnSerialize, that record is on its way and is
\* stored once the transform has resolved.
C12_InitialValuePersisted ==
  (JustConstructed /\ cfg.stored = NullItem) =>
     /\ cfg.transformOnSerialize # "async" => localStorage = RecordOf(initialValue)
     /\ cfg.transformOnSerialize = "async" =>
          /\ localStorage \in {NullItem, RecordOf(initialValue)}
          /\ \A i \in DOMAIN pendingWrites :
               JSONstringify(pendingWrites[i], appVersion) = RecordOf(initialValue)
          /\ pendingWrites = <<>> => localStorage = RecordOf(initialValue)

C12_Witness ==
  /\ JustConstructed
  /\ cfg.stored = NullItem
  /\ cfg.transformOnSerialize = "async"
  /\ pendingWrites = <<>>
  /\ localStorage = JSONstringify(initialValue + 1000, appVersion)

\* The calls whose commit is made by the step
Committing == { k \in DOMAIN calls' : calls'[k].settled /\ (k \in DOMAIN calls => ~calls[k].settled) }

\* The value call k commits
CommitOf(k) == Step(calls'[k].state, calls'[k].action)

\* The step starts exactly one write-back, of the record of `value`
OneWrite(value) ==
  IF cfg.transformOnSerialize = "async"
  THEN /\ Len(pendingWrites') = Len(pendingWrites) + 1
       /\ JSONstringify(pendingWrites'[Len(pendingWrites')], appVersion) = RecordOf(value)
       /\ setItemCalls' = setItemCalls
  ELSE /\ Len(setItemCalls') = Len(setItemCalls) + 1
       /\ localStorage' = RecordOf(value)
       /\ pendingWrites' = pendingWrites

\* C13 as stated: with persistence configured and no hydration in progress,
\* every commit made by update() triggers exactly one store write, of the
\* record {data: serialized-or-raw committed value, version: appVersion}.
C13_EveryCommitWrites ==
  [][\A k \in Committing :
       (cfg.persistKey /\ hydration # "pending") => OneWrite(CommitOf(k))]_vars

\* C13 (amended): with persistence configured and no hydration in progress,
\* a commit made by update() whose value differs from the stream's current
\* value triggers exactly one store write, of the record {data:
\* serialized-or-raw committed value, version: appVersion}; a commit of a
\* value equal to the current one triggers no write.
C13_EveryNewValueCommitWrites ==
  [][\A k \in Committing :
       (cfg.persistKey /\ hydration # "pending") =>
          IF CommitOf(k) # _value
          THEN OneWrite(CommitOf(k))
          ELSE UNCHANGED << localStorage, setItemCalls, pendingWrites >>]_vars

C13_Witness ==
  /\ cfg.persistKey
  /\ cfg.transformOnSerialize = "sync"
  /\ Len(calls) = 2
  /\ calls[1].settled /\ calls[2].settled
  /\ calls[1].action = calls[2].action
  /\ ~cfg.hasUpdate
  /\ Len(setItemCalls) = 3
  /\ localStorage = JSONstringify(calls[2].action + 1000, appVersion)

\* C14: when the stored value for the persistence key is malformed JSON,
\* constructing the atom does not fail: it is treated as a cache miss and
\* the atom starts with its original initial value.
C14_MalformedRecordIsCacheMiss ==
  (cfg.persistKey /\ cfg.stored = MalformedItem) =>
     /\ hydration # "threw"
     /\ _value = initialValue

\* C15: for every stored record with the configured version that has a data
\* field, whatever the payload, a configured synchronous deserialize
\* transform is applied to it and the atom's value when atom() returns is
\* transform(data), never the raw stored data.
C15_SyncDeserializeAlwaysApplied ==
  (/\ JustConstructed
   /\ cfg.transformOnDeserialize = "sync"
   /\ cfg.stored.version = <<appVersion>>
   /\ cfg.stored.data # <<>>) =>
     _value = cfg.stored.data[1] + 1

\* The step is a call of update(); Submitted is the call it makes
Submitting == Len(calls') = Len(calls) + 1
Submitted == Len(calls')

\* The suppression condition as the claim states it: the pending queue is
\* non-empty and the first queued descriptor was submitted at most a window ago
WithinThrottleWindow ==
  /\ queue # <<>>
  /\ now - calls[queue[1]].timestamp <= cfg.concurrencyTime

\* C16: under throttle a new update() is suppressed exactly when the pending
\* queue is non-empty and the time since the first queued descriptor's
\* submission is at most the window.  A suppressed call resolves immediately,
\* runs no reducer and leaves the pending queue, the stream value and the
\* store unchanged; any other call is admitted (it gets a descriptor and its
\* reducer is invoked), and when its reducer returns, the result commits.
C16_ThrottleGate ==
  [][cfg.concurrency = "throttle" =>
       /\ (Submitting /\ WithinThrottleWindow) =>
            /\ calls'[Submitted].pc = "resolved"
            /\ calls'[Submitted].id = -1
            /\ ~calls'[Submitted].settled
            /\ \A j \in DOMAIN calls : calls'[j] = calls[j]
            /\ UNCHANGED << queue, idgen, _value, _previousValue, received,
                            localStorage, setItemCalls, pendingWrites >>
       /\ (Submitting /\ ~WithinThrottleWindow) =>
            /\ calls'[Submitted].id = idgen
            /\ IF cfg.hasUpdate
               THEN /\ calls'[Submitted].pc = "reducing"
                    /\ calls'[Submitted].state = _value
                    /\ queue' = Append(queue, Submitted)
               ELSE /\ calls'[Submitted].settled
                    /\ _value' = calls'[Submitted].action
       /\ \A k \in DOMAIN calls :
            (calls[k].pc = "reducing" /\ calls'[k].pc = "resolved") =>
               /\ calls'[k].settled
               /\ _value' = calls[k].state * 10 + calls[k].action]_vars

\* A call is suppressed, and a later call, made after the window has
\* elapsed while the first is still pending, is admitted and commits
C16_Witness ==
  /\ cfg.concurrency = "throttle"
  /\ cfg.concurrencyTime = ConcurrencyWindow
  /\ cfg.hasUpdate
  /\ Len(calls) = 3
  /\ calls[2].id = -1 /\ calls[2].inflight = {1}
  /\ calls[3].inflight = {1} /\ calls[3].settled
  /\ calls[3].timestamp - calls[1].timestamp > ConcurrencyWindow

\* Call k got a descriptor
Admitted(k) == calls[k].id # -1

\* C17 as stated: under throttle with window W, of the update() calls
\* submitted within W of an admitted request's submission time, no other one
\* commits.
C17_OneCommitPerWindow ==
  cfg.concurrency = "throttle" =>
    \A k \in DOMAIN calls : \A j \in 1..(k - 1) :
      (Admitted(j) /\ calls[k].timestamp - calls[j].timestamp <= cfg.concurrencyTime) =>
         ~calls[k].settled

\* C17 (amended): under throttle with window W, a call submitted while a
\* request is pending, within W of the submission of the first pending
\* request, never commits (nor gets a descriptor).
C17_OneCommitPerPendingWindow ==
  cfg.concurrency = "throttle" =>
    \A k \in DOMAIN calls :
      (/\ calls[k].head # 0
       /\ calls[k].timestamp - calls[calls[k].head].timestamp <= cfg.concurrencyTime) =>
         /\ ~Admitted(k)
         /\ ~calls[k].settled
         /\ calls[k].pc = "resolved"

\* A call within the window of a pending request is dropped, and a call
\* within the window of a request that has finished commits
C17_Witness ==
  /\ cfg.concurrency = "throttle"
  /\ cfg.concurrencyTime = ConcurrencyWindow
  /\ cfg.hasUpdate
  /\ Len(calls) = 3
  /\ calls[1].settled
  /\ calls[2].head = 1 /\ ~Admitted(2)
  /\ calls[3].head = 0 /\ calls[3].settled
  /\ calls[3].timestamp - calls[1].timestamp <= ConcurrencyWindow

\* C18: next(v) notifies the subscribers if and only if v is not equal,
\* under the comparator, to the last-emitted value, and sets the last-emitted
\* value to v in both cases; two consecutive next calls with equal values
\* notify only once.  (The next calls are the commits of update().)
C18_NextNotifiesIffNew ==
  [][\A k \in Committing :
       LET v == CommitOf(k) IN
       /\ _previousValue' = v
       /\ \A s \in DOMAIN received :
            received'[s] = IF v # _previousValue /\ s \in Range(subscribers)
                           THEN Append(received[s], v)
                           ELSE received[s]]_vars

\* A listener has seen two commits of the same value: it was notified once
C18_Witness ==
  /\ ~cfg.hasUpdate
  /\ Len(calls) = 2
  /\ calls[1].settled /\ calls[2].settled
  /\ calls[1].action = calls[2].action
  /\ \E s \in Range(subscribers) :
       /\ subKind[s] = "listener"
       /\ received[s] = << initialValue, calls[1].action >>

\* The step is a call of subscribe(); Subscriber is the id it registers
Subscribing == Subject_idgen' = Subject_idgen + 1
Subscriber == Subject_idgen

\* C19: subscribe(cb) on the atom's stream invokes cb with the current value
\* synchronously: when subscribe returns, cb has been called exactly once,
\* with the current value, it is registered last, and no other subscriber
\* was notified, whatever the de-duplication state of the stream.
C19_ReplayOnSubscribe ==
  [][Subscribing =>
       /\ received'[Subscriber] = << _value >>
       /\ subscribers' = Append(subscribers, Subscriber)
       /\ \A s \in DOMAIN received : received'[s] = received[s]
       /\ UNCHANGED << _value, _previousValue >>]_vars

\* A listener subscribed while the last-emitted value lagged behind the
\* current value, and was replayed the current value
C19_Witness ==
  \E s \in Range(subscribers) :
    /\ subKind[s] = "listener"
    /\ _value # _previousValue
    /\ received[s] = << _value >>
    /\ _value # initialValue

\* C20: when a subscriber callback throws during a broadcast, every
\* subscriber registered after it still receives the value in that same
\* broadcast.
C20_ThrowDoesNotStopBroadcast ==
  [][\A i \in DOMAIN subscribers : \A j \in DOMAIN subscribers :
       (/\ i < j
        /\ subKind[subscribers[i]] = "thrower"
        /\ received'[subscribers[i]] # received[subscribers[i]]) =>
          received'[subscribers[j]] = Append(received[subscribers[j]], _value')]_vars

\* The calls that resolve in the step
Resolving ==
  { k \in DOMAIN calls' : calls'[k].pc = "resolved" /\ (k \in DOMAIN calls => calls[k].pc # "resolved") }

\* C21: an update() call never resolves before its descriptor has been
\* committed or discarded: when an admitted call that is not marked skip
\* resolves, its reducer's result has been committed to the stream.
C21_ResolvesAfterCommit ==
  [][\A k \in Resolving :
       (calls'[k].id # -1 /\ ~(cfg.concurrency = "debounce" /\ calls'[k].skip)) =>
          /\ calls'[k].settled
          /\ _value' = CommitOf(k)]_vars

\* Under each policy an admitted call has resolved with its result committed
C21_Witness ==
  /\ cfg.hasUpdate
  /\ Len(calls) = 2
  /\ calls[1].pc = "resolved" /\ calls[1].id # -1 /\ ~calls[1].skip
  /\ calls[2].pc = "reducing"
  /\ _value = initialValue * 10 + calls[1].action

\* C22: under debounce, when the reducer of a descriptor marked skip
\* resolves, the stream value does not change, no subscriber is notified, no
\* write-back is started, and the update() call that made it resolves.
C22_SkippedNeverCommits ==
  [][cfg.concurrency = "debounce" =>
       \A k \in DOMAIN calls :
         (calls[k].pc = "reducing" /\ calls[k].skip /\ calls'[k].pc # "reducing") =>
            /\ calls'[k].pc = "resolved"
            /\ ~calls'[k].settled
            /\ UNCHANGED << _value, _previousValue, received,
                            localStorage, setItemCalls, pendingWrites >>]_vars

\* A skipped descriptor of a persisted atom has resolved after the newer one
\* committed: the store holds the newer commit's record
C22_Witness ==
  /\ cfg.concurrency = "debounce" /\ cfg.persistKey /\ cfg.hasUpdate
  /\ cfg.transformOnSerialize = "sync"
  /\ Len(calls) = 2
  /\ calls[1].skip /\ calls[1].pc = "resolved" /\ ~calls[1].settled
  /\ calls[2].settled
  /\ Len(setItemCalls) = 3
  /\ localStorage = JSONstringify(_value + 1000, appVersion)

\* The rest of a sequence of events from the first one the predicate is false for
RECURSIVE DropWhile(_)
DropWhile(events) ==
  IF events = <<>> THEN <<>>
  ELSE IF predicate(Head(events)) THEN DropWhile(Tail(events))
  ELSE events

\* C23: a stream derived with skipWhile(pred) skips the parent's emissions
\* until the first one pred is false for, and propagates every emission from
\* then on, also those pred is true for again.
C23_SkipWhileStopsSkipping ==
  \A s \in DOMAIN derived :
    derived[s].op = "skipWhile" => derived[s].nexts = DropWhile(received[s])

\* The calls whose reducer is in flight
Reducing == { k \in DOMAIN calls : calls[k].pc = "reducing" }

\* C24 as stated: under throttle the pending queue never holds more than one
\* descriptor, so no two admitted requests' reducers are in flight together.
C24_ThrottleSinglePending ==
  cfg.concurrency = "throttle" => Len(queue) <= 1 /\ Cardinality(Reducing) <= 1

\* C24 (amended): under throttle with no window configured the pending queue
\* never holds more than one descriptor and no two reducers are in flight
\* together; with a window W, a descriptor joins a non-empty queue only when
\* it is submitted more than W after the first pending descriptor.
C24_ThrottleSinglePendingInWindow ==
  cfg.concurrency = "throttle" =>
    /\ cfg.concurrencyTime = MAX_SAFE_INTEGER =>
         Len(queue) <= 1 /\ Cardinality(Reducing) <= 1
    /\ \A k \in Range(queue) :
         calls[k].head # 0 =>
           calls[k].timestamp - calls[calls[k].head].timestamp > cfg.concurrencyTime

\* Two admitted requests are pending together, the second one submitted
\* after the window of the first
C24_Witness ==
  /\ cfg.concurrency = "throttle" /\ cfg.concurrencyTime = ConcurrencyWindow
  /\ queue = << 1, 2 >>
  /\ Reducing = { 1, 2 }
  /\ calls[2].timestamp - calls[1].timestamp > ConcurrencyWindow

\* The age of descriptor d when the step is taken
Age(d) == now - calls[d].timestamp

\* C25: under debounce, on a new update() exactly the pending descriptors
\* whose age is within the window are marked skip, and only those are
\* removed from the pending queue; a pending descriptor older than the
\* window is neither marked nor removed.
C25_DebounceClearsOnlyMarked ==
  [][(cfg.concurrency = "debounce" /\ Submitting) =>
       \A d \in Range(queue) :
         /\ Age(d) < cfg.concurrencyTime =>
              calls'[d].skip /\ d \notin Range(queue')
         /\ Age(d) > cfg.concurrencyTime =>
              calls'[d].skip = calls[d].skip /\ d \in Range(queue')]_vars

\* No call submitted after j has committed
NoLaterCommit(j) == \A k \in DOMAIN calls : k > j => ~calls[k].settled

\* Once every call has resolved, the value is the most recent request's result
LastRequestWins ==
  (calls # <<>> /\ AllResolved) =>
     /\ calls[Len(calls)].settled
     /\ _value = Step(calls[Len(calls)].state, calls[Len(calls)].action)

\* C26 as stated: under debounce commits happen in submission order: once a
\* later-submitted request has committed, no earlier-submitted request
\* commits afterwards, and after all calls have resolved the state is the
\* one produced by the most recent request.
C26_DebounceCommitsInOrder ==
  [][cfg.concurrency = "debounce" =>
       /\ \A j \in Committing : NoLaterCommit(j)
       /\ LastRequestWins']_vars

\* C26 (amended): the same, when every call is submitted less than
\* concurrencyTime after the one before it (always so with no window).
C26_DebounceCommitsInOrderWithinWindow ==
  [][(cfg.concurrency = "debounce" /\ WithinWindow') =>
       /\ \A j \in Committing : NoLaterCommit(j)
       /\ LastRequestWins']_vars

\* A later request has committed while an earlier one's reducer is running
C26_Witness ==
  /\ cfg.concurrency = "debounce" /\ cfg.concurrencyTime = ConcurrencyWindow
  /\ WithinWindow
  /\ Len(calls) = 3
  /\ calls[3].settled
  /\ calls[1].pc = "reducing" /\ calls[1].skip
  /\ calls[2].pc = "reducing" /\ calls[2].skip

\* The queue q with descriptor k taken out, if it is there
Without(q, k) ==
  LET Other(x) == x # k IN SelectSeq(q, Other)

\* C27: when a descriptor finishes and commits, exactly that descriptor is
\* removed from the pending queue and no other: when it is no longer in the
\* queue (a debounce submission cleared it), the queue is left as it is.
C27_CommitRemovesOwnDescriptor ==
  [][\A k \in Committing \cap DOMAIN calls : queue' = Without(queue, k)]_vars

\* C28: under the queue policy at most one reducer invocation is in progress
\* at any time, and no other descriptor commits between the moment a reducer
\* reads the stream's value and the moment its own result is committed: the
\* value it read is still the stream's value.
C28_QueueReducersSerialized ==
  cfg.concurrency = "queue" =>
    /\ Cardinality(Reducing) <= 1
    /\ \A k \in Reducing : calls[k].state = _value

\* The second reducer runs on the first one's result while a third call waits
C28_Witness ==
  /\ cfg.concurrency = "queue" /\ cfg.hasUpdate
  /\ Len(calls) = 3
  /\ calls[1].settled
  /\ calls[2].pc = "reducing" /\ calls[2].state = initialValue * 10 + calls[1].action
  /\ calls[3].pc = "waiting" /\ calls[3].waitFor = { 1, 2 }

\* C29: when every reducer invocation terminates without failing, under each
\* of the three policies every update() call eventually resolves and the
\* pending queue is eventually empty.
\* (A resolved call stays resolved, so this is: again and again, every call
\* made so far has resolved and the queue is empty.)
C29_EveryCallResolves == []<>(AllResolved /\ queue = <<>>)

\* Under debounce with a window, three calls have resolved, the first one
\* unmarked and committed, and the queue is empty
C29_Witness ==
  /\ cfg.concurrency = "debounce" /\ cfg.concurrencyTime = ConcurrencyWindow /\ cfg.hasUpdate
  /\ Len(calls) = 3 /\ AllResolved
  /\ 1 \in calls[2].inflight
  /\ calls[1].settled /\ ~calls[1].skip
  /\ queue = <<>>

\* C30: with an asynchronous serialize transform the write-backs reach the
\* store in commit order, so once all updates and write-backs have finished
\* the stored record holds the serialized form of the atom's current value.
C30_WriteBacksLandInCommitOrder ==
  (/\ cfg.persistKey
   /\ cfg.transformOnSerialize = "async"
   /\ AllResolved
   /\ pendingWrites = <<>>) =>
     localStorage = RecordOf(_value)

\* C31: when next broadcasts a value, every subscriber that was registered
\* when next was called is invoked exactly once with it, even if a callback
\* unsubscribes itself during that broadcast.  (The next calls are the commits
\* of update(); no callback that calls next is registered.)
C31_BroadcastReachesSnapshot ==
  [][\A k \in Committing :
       LET v == CommitOf(k) IN
       (/\ v # _previousValue
        /\ \A s \in Range(subscribers) : subKind[s] # "reentrant") =>
          \A s \in Range(subscribers) : received'[s] = Append(received[s], v)]_vars

\* C32: on the atom's stream, whenever no next call is executing, the
\* retained current value equals the last-emitted value, also after next
\* calls made by a subscriber callback during a broadcast.
C32_ValueInSync ==
  hydration # "threw" => _value = _previousValue

\* C33: pipe() on the atom's stream evaluates the transform exactly once at
\* pipe time, with (current value, undefined): when that result says
\* stopPropagation the child is a plain stream holding no value, otherwise a
\* stateful stream holding the value; the transform is not run again before
\* the parent next emits.
C33_TransformOnceAtPipeTime ==
  [][\A s \in DOMAIN derived' \ DOMAIN derived :
       LET d == derived'[s]
           stop == StopPropagation(d.op, _value)
       IN /\ d.processed = << << _value, <<>> >> >>
          /\ d.stateful = ~stop
          /\ d._value = IF stop THEN <<>> ELSE << _value >>]_vars

\* C34 as stated: the subscribers of a stream derived with filter(p) receive
\* exactly the broadcast parent events that satisfy p, in order, none
\* dropped.  (received[s] is what the callback of pipe() was called with: the
\* replay at pipe time, then the parent's broadcasts.)
C34_FilterDeliversEveryMatch ==
  \A s \in DOMAIN derived :
    derived[s].op = "filter" =>
      derived[s].emitted = SelectSeq(Tail(received[s]), predicate)

\* C34 (amended): for every parent broadcast the transform lets through, the
\* derived stream's next is called with the value: with filter(p), next is
\* called for exactly the broadcast events that satisfy p; the child's
\* subscribers receive each of them except one equal to the child's
\* last-emitted value, which the child's own de-duplication suppresses.
C34_FilterForwardsEveryMatch ==
  [][\A k \in Committing : \A s \in DOMAIN derived :
       LET v == CommitOf(k)
           d == derived[s]
       IN (v # _previousValue /\ d.op = "filter") =>
            /\ derived'[s].nexts = IF predicate(v) THEN Append(d.nexts, v) ELSE d.nexts
            /\ derived'[s].emitted = IF predicate(v) /\ d._previousValue # << v >>
                                     THEN Append(d.emitted, v) ELSE d.emitted]_vars

\* The parent has broadcast 1, 2 and 1 to a stream derived with filter: the
\* child broadcast the first 1 and suppressed the second
C34_Witness ==
  \E s \in DOMAIN derived :
    /\ derived[s].op = "filter"
    /\ received[s] = << initialValue, 1, 2, 1 >>
    /\ derived[s].emitted = << 1 >>

====
